---- MODULE Spec2Model ----
(***************************************************************************)
(* Model of pushstate.FileCache (src/fileCacher.go, the variant with       *)
(* NewFileCache, lines 204-440): an in-memory table of check-sums guarded  *)
(* by one mutex, a dirty flag, and a state-file replaced by                *)
(* temp-file-plus-rename.                                                  *)
(*                                                                         *)
(* Go strings are modelled as sequences (the empty string is <<>>), the    *)
(* state-file as a sequence of JSON tokens, and every goroutine calling    *)
(* the store as a process with a program counter.                          *)
(***************************************************************************)
EXTENDS Integers, Sequences, FiniteSets, TLC

\* ------------------------------------------------------------------ bounds
\* number of distinct serializable bodies an entity can have
NumVersions == 2

Procs == {"g1", "g2"}
IdOrder == <<"A", "B">>
Ids == {IdOrder[i] : i \in 1..Len(IdOrder)}
\* body 0 stands for an entity whose JSON encoding fails
Bodies == 0..NumVersions
Entities == [id : Ids, body : Bodies]

None == "none"
NoArg == "noarg"
Ops == {"IsChanged", "Put", "Get", "Size", "Delete", "Reset", "Read", "Save", "Dump", "WriteTo"}

VARIABLES
  stateCache,   \* fc.stateCache: the in-memory table, identifier -> check-sum
  isDirty,      \* fc.isDirty
  cacheLock,    \* fc.cacheLock: the goroutine holding the mutex, or None
  file,         \* the state-file at fc.filename
  fault,        \* per goroutine: the I/O step of its operation that failed, or None
  synced,       \* a Read or a durable write of this store has succeeded
  pc,           \* per goroutine: position inside the operation it runs
  op,           \* per goroutine: the operation it runs
  arg,          \* per goroutine: the operation's argument
  tmp,          \* per goroutine: the temporary file of its saveToFile call
  ret,          \* per goroutine: the value its operation returns
  pre,          \* per goroutine: table, flag and file when it took the lock
  saved,        \* the table handed to the last saveToFile call that renamed its file
  cacheNil,     \* fc.stateCache == nil; stateCache is then the empty table
  mutex         \* which mutex fc.cacheLock points to: NewFileCache's or a later one

vars == <<stateCache, isDirty, cacheLock, file, fault, synced, pc, op, arg, tmp, ret, pre, saved,
         cacheNil, mutex>>

\* ------------------------------------------------------------ Go values
EmptyStr == <<>>
EmptyMap == [x \in {} |-> EmptyStr]

\* m[k] of a Go map: the zero value when the key is absent
MapGet(m, k) == IF k \in DOMAIN m THEN m[k] ELSE EmptyStr

\* m[k] = v
MapSetAlone(m, k, v) == [x \in {k} |-> v]
MapSet(m, k, v) == [x \in (DOMAIN m) \cup {k} |-> IF x = k THEN v ELSE m[x]]

\* delete(m, k)
MapDeleteKeepsKey(m, k) == m
MapDelete(m, k) == [x \in (DOMAIN m) \ {k} |-> m[x]]

MapLen(m) == Cardinality(DOMAIN m)

\* ------------------------------------------------------------- files
\* a file: whether it exists, and its content
NoFile == [exists |-> FALSE, data |-> <<>>]
EmptyFile == [exists |-> TRUE, data |-> <<>>]
FileOf(d) == [exists |-> TRUE, data |-> d]

LBrace == <<"{">>
RBrace == <<"}">>
NullLit == <<"null">>

RECURSIVE PairsFrom(_, _)
PairsFrom(m, i) ==
  IF i > Len(IdOrder) THEN <<>>
  ELSE IF IdOrder[i] \in DOMAIN m
       THEN <<(<<IdOrder[i], m[IdOrder[i]]>>)>> \o PairsFrom(m, i + 1)
       ELSE PairsFrom(m, i + 1)

\* json.NewEncoder(w).Encode(cache) for a map[string]string: an object with
\* the keys in sorted order
EncodeMapOmitEmpty(m) ==
  <<LBrace>> \o SelectSeq(PairsFrom(m, 1), LAMBDA t : Len(t[2]) > 0) \o <<RBrace>>
EncodeMap(m) == <<LBrace>> \o PairsFrom(m, 1) \o <<RBrace>>

IsObject(d) ==
  /\ Len(d) >= 2
  /\ d[1] = LBrace
  /\ d[Len(d)] = RBrace
  /\ \A i \in 2..(Len(d) - 1) : Len(d[i]) = 2

ObjectKeys(d) == {d[i][1] : i \in 2..(Len(d) - 1)}

LastOf(d, k) == CHOOSE i \in 2..(Len(d) - 1) :
                  /\ d[i][1] = k
                  /\ \A j \in (i + 1)..(Len(d) - 1) : d[j][1] # k

\* json.NewDecoder(r).Decode(&cache) into cache := map[string]string{}, with
\* io.EOF (an empty file) let through; the JSON document null sets the map
\* to nil. cache is the table the map reads as, nil whether the map is nil.
DecodeMap(d) ==
  IF Len(d) = 0 THEN [err |-> FALSE, cache |-> EmptyMap, nil |-> FALSE]
  ELSE IF IsObject(d)
       THEN [err |-> FALSE, cache |-> [k \in ObjectKeys(d) |-> d[LastOf(d, k)][2]],
             nil |-> FALSE]
       ELSE IF d = <<NullLit>>
            THEN [err |-> FALSE, cache |-> EmptyMap, nil |-> TRUE]
            ELSE [err |-> TRUE, cache |-> EmptyMap, nil |-> FALSE]

\* ------------------------------------------------------- check-sums
IdIndex(id) == CHOOSE i \in 1..Len(IdOrder) : IdOrder[i] = id

\* json.NewEncoder(jsonBuf).Encode(v) of the entity
Serialize(e) ==
  IF e.body \notin 1..NumVersions
  THEN [err |-> TRUE, bytes |-> <<>>]
  ELSE [err |-> FALSE, bytes |-> <<IdIndex(e.id), e.body>>]

\* fc.checkSum.SumBytes: a deterministic, never empty digest of the bytes
SumBytes(b) == <<b[1] * (NumVersions + 1) + b[2]>>

\* makeCheckSum: "" when the entity does not encode, else its digest
makeCheckSumOfId(e) ==
  IF Serialize(e).err THEN EmptyStr ELSE SumBytes(<<IdIndex(e.id), IdIndex(e.id)>>)
makeCheckSum(e) ==
  IF Serialize(e).err THEN EmptyStr ELSE SumBytes(Serialize(e).bytes)

\* the table fc.getCache() returns; NewFileCache, Read and Reset install a map
getCache == stateCache

\* what fc.getCache() assigns: a nil fc.stateCache is replaced by an empty map
\* and fc.cacheLock by a new, unlocked mutex
GetCacheCalled ==
  /\ cacheNil' = FALSE
  /\ mutex' = IF cacheNil THEN "fresh" ELSE mutex
  /\ cacheLock' = IF cacheNil THEN None ELSE cacheLock

\* the value IsChanged returns
IsChangedNoEmptyTest(cache, e) == MapGet(cache, e.id) # makeCheckSum(e)
IsChangedResult(cache, e) ==
  IF Len(MapGet(cache, e.id)) = 0 THEN TRUE
  ELSE MapGet(cache, e.id) # makeCheckSum(e)

\* readFile: open with O_CREATE|O_RDONLY, then decode
ReadFailed == [err |-> TRUE, cache |-> EmptyMap, nil |-> TRUE]
readFileStrictEOF(f) ==
  IF Len(f.data) = 0 \/ DecodeMap(f.data).err THEN ReadFailed ELSE DecodeMap(f.data)
readFileDeclaresNil(f) ==
  IF DecodeMap(f.data).err THEN ReadFailed
  ELSE IF Len(f.data) = 0 THEN [err |-> FALSE, cache |-> EmptyMap, nil |-> TRUE]
  ELSE DecodeMap(f.data)
readFile(f) == IF DecodeMap(f.data).err THEN ReadFailed ELSE DecodeMap(f.data)

\* os.OpenFile(name, O_CREATE|O_RDONLY): a missing file is created empty
OpenCreate(f) == IF f.exists THEN f ELSE EmptyFile

\* ------------------------------------------------------------ results
NoRet == [err |-> FALSE, val |-> None]
Ok(v) == [err |-> FALSE, val |-> v]
Fail == [err |-> TRUE, val |-> None]

NoPre == [held |-> FALSE, cache |-> EmptyMap, dirty |-> FALSE, file |-> NoFile]
NoSave == [valid |-> FALSE, cache |-> EmptyMap]

\* the state-files the store can find when it is constructed: none, one
\* written by an earlier run, or one that does not parse
Corrupt == FileOf(<<LBrace>>)
InitFiles == {NoFile, Corrupt, FileOf(EncodeMap(EmptyMap)),
              FileOf(EncodeMap(MapSet(EmptyMap, "A", makeCheckSum([id |-> "A", body |-> 1]))))}

TypeArgs(o) ==
  CASE o \in {"IsChanged", "Put"} -> Entities
    [] o \in {"Get", "Delete"} -> Ids
    [] OTHER -> {NoArg}

\* NewFileCache
Init ==
  /\ stateCache = EmptyMap
  /\ isDirty = FALSE
  /\ cacheLock = None
  /\ file \in InitFiles
  /\ fault = [p \in Procs |-> None]
  /\ synced = FALSE
  /\ pc = [p \in Procs |-> "idle"]
  /\ op = [p \in Procs |-> None]
  /\ arg = [p \in Procs |-> NoArg]
  /\ tmp = [p \in Procs |-> NoFile]
  /\ ret = [p \in Procs |-> NoRet]
  /\ pre = [p \in Procs |-> NoPre]
  /\ saved = NoSave
  /\ cacheNil = FALSE
  /\ mutex = "first"

\* --------------------------------------------------------- operations
Goto(p, where) == pc' = [pc EXCEPT ![p] = where]
Returns(p, r) == /\ Goto(p, "ret")
                 /\ ret' = [ret EXCEPT ![p] = r]
\* the operation returns the error of the I/O step that failed
Fails(p, step) == /\ fault' = [fault EXCEPT ![p] = step]
                  /\ Returns(p, Fail)

\* A goroutine calls Save, whose first statement reads fc.isDirty.
CallSave(p) ==
  /\ pc[p] = "idle"
  /\ op' = [op EXCEPT ![p] = "Save"]
  /\ Goto(p, "check")
  /\ UNCHANGED <<stateCache, isDirty, cacheLock, file, fault, synced, arg, tmp, ret, pre, saved, cacheNil, mutex>>

\* A goroutine calls one of the other operations, whose first statement is
\* fc.cacheLock.Lock(). Which operation it is, and with which argument,
\* shows only once it holds the lock, so both are drawn in Lock.
Call(p) ==
  /\ pc[p] = "idle"
  /\ Goto(p, "lock")
  /\ UNCHANGED <<stateCache, isDirty, cacheLock, file, fault, synced, op, arg, tmp, ret, pre, saved, cacheNil, mutex>>

\* Save: if !fc.isDirty { return nil }, read before the lock is taken
SaveCheckAlwaysWrites(p) ==
  /\ pc[p] = "check"
  /\ Goto(p, "lock")
  /\ UNCHANGED <<stateCache, isDirty, cacheLock, file, fault, synced, op, arg, tmp, ret, pre, saved, cacheNil, mutex>>
SaveCheck(p) ==
  /\ pc[p] = "check"
  /\ IF ~isDirty
     THEN Returns(p, Ok(None))
     ELSE Goto(p, "lock") /\ UNCHANGED ret
  /\ UNCHANGED <<stateCache, isDirty, cacheLock, file, fault, synced, op, arg, tmp, pre, saved, cacheNil, mutex>>

\* fc.cacheLock.Lock(), the first statement of every operation but Save,
\* and the statement after the test of fc.isDirty in Save
Lock(p) ==
  /\ pc[p] = "lock"
  /\ cacheLock = None
  /\ cacheLock' = p
  /\ pre' = [pre EXCEPT ![p] = [held |-> TRUE, cache |-> stateCache,
                                dirty |-> isDirty, file |-> file]]
  /\ IF op[p] = "Save"
     THEN Goto(p, "tempfile") /\ UNCHANGED <<op, arg>>
     ELSE /\ \E o \in Ops \ {"Save"} : \E a \in TypeArgs(o) :
               /\ op' = [op EXCEPT ![p] = o]
               /\ arg' = [arg EXCEPT ![p] = a]
          /\ Goto(p, "body")
  /\ UNCHANGED <<stateCache, isDirty, file, fault, synced, tmp, ret, saved, cacheNil, mutex>>

IsChanged(p) ==
  /\ pc[p] = "body" /\ op[p] = "IsChanged"
  /\ Returns(p, Ok(IsChangedResult(getCache, arg[p])))
  /\ GetCacheCalled
  /\ UNCHANGED <<stateCache, isDirty, file, fault, synced, op, arg, tmp, pre, saved>>

PutLeavesClean(p) ==
  /\ pc[p] = "body" /\ op[p] = "Put"
  /\ stateCache' = MapSet(getCache, arg[p].id, makeCheckSum(arg[p]))
  /\ Returns(p, Ok(None))
  /\ GetCacheCalled
  /\ UNCHANGED <<isDirty, file, fault, synced, op, arg, tmp, pre, saved>>
Put(p) ==
  /\ pc[p] = "body" /\ op[p] = "Put"
  /\ stateCache' = MapSet(getCache, arg[p].id, makeCheckSum(arg[p]))
  /\ isDirty' = TRUE
  /\ Returns(p, Ok(None))
  /\ GetCacheCalled
  /\ UNCHANGED <<file, fault, synced, op, arg, tmp, pre, saved>>

Get(p) ==
  /\ pc[p] = "body" /\ op[p] = "Get"
  /\ Returns(p, Ok(MapGet(getCache, arg[p])))
  /\ GetCacheCalled
  /\ UNCHANGED <<stateCache, isDirty, file, fault, synced, op, arg, tmp, pre, saved>>

Size(p) ==
  /\ pc[p] = "body" /\ op[p] = "Size"
  /\ Returns(p, Ok(MapLen(getCache)))
  /\ GetCacheCalled
  /\ UNCHANGED <<stateCache, isDirty, file, fault, synced, op, arg, tmp, pre, saved>>

\* Delete up to its call of saveToFile
DeleteLeavesFlag(p) ==
  /\ pc[p] = "body" /\ op[p] = "Delete"
  /\ stateCache' = MapDelete(getCache, arg[p])
  /\ Goto(p, "tempfile")
  /\ GetCacheCalled
  /\ UNCHANGED <<isDirty, file, fault, synced, op, arg, tmp, ret, pre, saved>>
Delete(p) ==
  /\ pc[p] = "body" /\ op[p] = "Delete"
  /\ stateCache' = MapDelete(getCache, arg[p])
  /\ isDirty' = TRUE
  /\ Goto(p, "tempfile")
  /\ GetCacheCalled
  /\ UNCHANGED <<file, fault, synced, op, arg, tmp, ret, pre, saved>>

\* Reset up to its call of saveToFile
Reset(p) ==
  /\ pc[p] = "body" /\ op[p] = "Reset"
  /\ isDirty' = TRUE
  /\ Goto(p, "tempfile")
  /\ UNCHANGED <<stateCache, cacheLock, file, fault, synced, op, arg, tmp, ret, pre, saved, cacheNil, mutex>>

\* Read: readFile under the lock; the file is opened with O_CREATE
ReadClearsDirty(p) ==
  /\ pc[p] = "body" /\ op[p] = "Read"
  /\ \E opened, readable \in BOOLEAN :
       IF ~opened
       THEN /\ Fails(p, "open")
            /\ UNCHANGED <<stateCache, isDirty, file, synced, cacheNil, mutex>>
       ELSE /\ file' = OpenCreate(file)
            /\ IF ~readable
               THEN Fails(p, "read") /\ UNCHANGED <<stateCache, isDirty, synced, cacheNil, mutex>>
               ELSE IF readFile(file').err
               THEN Fails(p, "decode") /\ UNCHANGED <<stateCache, isDirty, synced, cacheNil, mutex>>
               ELSE /\ stateCache' = readFile(file').cache
                    /\ isDirty' = FALSE
                    /\ synced' = TRUE
                    /\ cacheNil' = readFile(file').nil
                    /\ Returns(p, Ok(None))
                    /\ UNCHANGED fault
  /\ UNCHANGED <<cacheLock, op, arg, tmp, pre, saved, mutex>>
Read(p) ==
  /\ pc[p] = "body" /\ op[p] = "Read"
  /\ \E opened, readable \in BOOLEAN :
       IF ~opened
       THEN /\ Fails(p, "open")
            /\ UNCHANGED <<stateCache, file, synced, cacheNil, mutex>>
       ELSE /\ file' = OpenCreate(file)
            /\ IF ~readable
               THEN Fails(p, "read") /\ UNCHANGED <<stateCache, synced, cacheNil, mutex>>
               ELSE IF readFile(file').err
               THEN Fails(p, "decode") /\ UNCHANGED <<stateCache, synced, cacheNil, mutex>>
               ELSE /\ stateCache' = readFile(file').cache
                    /\ synced' = TRUE
                    /\ cacheNil' = readFile(file').nil
                    /\ Returns(p, Ok(None))
                    /\ UNCHANGED fault
  /\ UNCHANGED <<isDirty, cacheLock, op, arg, tmp, pre, saved, mutex>>

\* Dump: open, stat and copy the file to a buffer
Dump(p) ==
  /\ pc[p] = "body" /\ op[p] = "Dump"
  /\ \E opened \in BOOLEAN, copied \in BOOLEAN :
       IF ~opened
       THEN Fails(p, "open") /\ UNCHANGED file
       ELSE /\ file' = OpenCreate(file)
            /\ IF copied
               THEN Returns(p, Ok(file'.data)) /\ UNCHANGED fault
               ELSE Fails(p, "copy")
  /\ UNCHANGED <<stateCache, isDirty, cacheLock, synced, op, arg, tmp, pre, saved, cacheNil, mutex>>

\* WriteTo: open and copy the file to the writer
WriteTo(p) ==
  /\ pc[p] = "body" /\ op[p] = "WriteTo"
  /\ \E opened \in BOOLEAN, copied \in BOOLEAN :
       IF ~opened
       THEN Fails(p, "open") /\ UNCHANGED file
       ELSE /\ file' = OpenCreate(file)
            /\ IF copied
               THEN Returns(p, Ok(file'.data)) /\ UNCHANGED fault
               ELSE Fails(p, "copy")
  /\ UNCHANGED <<stateCache, isDirty, cacheLock, synced, op, arg, tmp, pre, saved, cacheNil, mutex>>

\* the cache Save, Delete and Reset hand to saveToFile
WriteArg(p) == IF op[p] = "Reset" THEN EmptyMap ELSE getCache

\* saveToFile: ioutil.TempFile in the directory of the state-file
TempFileClearsDirty(p) ==
  /\ pc[p] = "tempfile"
  /\ isDirty' = FALSE
  /\ \E ok \in BOOLEAN :
       IF ok
       THEN /\ tmp' = [tmp EXCEPT ![p] = EmptyFile]
            /\ Goto(p, "encode")
            /\ UNCHANGED <<ret, fault>>
       ELSE /\ Fails(p, "tempfile")
            /\ UNCHANGED tmp
  /\ IF op[p] = "Save" THEN GetCacheCalled ELSE UNCHANGED <<cacheLock, cacheNil, mutex>>
  /\ UNCHANGED <<stateCache, file, synced, op, arg, pre, saved>>
TempFile(p) ==
  /\ pc[p] = "tempfile"
  /\ \E ok \in BOOLEAN :
       IF ok
       THEN /\ tmp' = [tmp EXCEPT ![p] = EmptyFile]
            /\ Goto(p, "encode")
            /\ UNCHANGED <<ret, fault>>
       ELSE /\ Fails(p, "tempfile")
            /\ UNCHANGED tmp
  /\ IF op[p] = "Save" THEN GetCacheCalled ELSE UNCHANGED <<cacheLock, cacheNil, mutex>>
  /\ UNCHANGED <<stateCache, isDirty, file, synced, op, arg, pre, saved>>

\* saveToFile: encode the cache into the temporary file; on failure close
\* and remove it
EncodeInPlace(p) ==
  /\ pc[p] = "encode"
  /\ \E ok \in BOOLEAN, n \in 0..Len(EncodeMap(WriteArg(p))) :
       /\ file' = FileOf(SubSeq(EncodeMap(WriteArg(p)), 1, n))
       /\ IF ok
          THEN /\ tmp' = [tmp EXCEPT ![p] = FileOf(EncodeMap(WriteArg(p)))]
               /\ Goto(p, "close")
               /\ UNCHANGED <<ret, fault>>
          ELSE /\ tmp' = [tmp EXCEPT ![p] = NoFile]
               /\ Fails(p, "encode")
  /\ UNCHANGED <<stateCache, isDirty, cacheLock, synced, op, arg, pre, saved, cacheNil, mutex>>
Encode(p) ==
  /\ pc[p] = "encode"
  /\ \E ok \in BOOLEAN :
       IF ok
       THEN /\ tmp' = [tmp EXCEPT ![p] = FileOf(EncodeMap(WriteArg(p)))]
            /\ Goto(p, "close")
            /\ UNCHANGED <<ret, fault>>
       ELSE /\ tmp' = [tmp EXCEPT ![p] = NoFile]
            /\ Fails(p, "encode")
  /\ UNCHANGED <<stateCache, isDirty, cacheLock, file, synced, op, arg, pre, saved, cacheNil, mutex>>

\* saveToFile: close the temporary file; on failure remove it
Close(p) ==
  /\ pc[p] = "close"
  /\ \E ok \in BOOLEAN :
       IF ok
       THEN /\ Goto(p, "rename")
            /\ UNCHANGED <<tmp, ret, fault>>
       ELSE /\ tmp' = [tmp EXCEPT ![p] = NoFile]
            /\ Fails(p, "close")
  /\ UNCHANGED <<stateCache, isDirty, cacheLock, file, synced, op, arg, pre, saved, cacheNil, mutex>>

\* saveToFile: os.Rename of the temporary file onto the state-file; on
\* failure the temporary file is left where it is
RenameErrorDropped(p) ==
  /\ pc[p] = "rename"
  /\ \E ok \in BOOLEAN :
       IF ok
       THEN /\ file' = tmp[p]
            /\ saved' = [valid |-> TRUE, cache |-> WriteArg(p)]
            /\ synced' = TRUE
            /\ tmp' = [tmp EXCEPT ![p] = NoFile]
            /\ UNCHANGED fault
       ELSE /\ fault' = [fault EXCEPT ![p] = "rename"]
            /\ UNCHANGED <<file, tmp, saved, synced>>
  /\ Goto(p, "chmod")
  /\ UNCHANGED <<stateCache, isDirty, cacheLock, op, arg, ret, pre, cacheNil, mutex>>
Rename(p) ==
  /\ pc[p] = "rename"
  /\ \E ok \in BOOLEAN :
       IF ok
       THEN /\ file' = tmp[p]
            /\ saved' = [valid |-> TRUE, cache |-> WriteArg(p)]
            /\ synced' = TRUE
            /\ tmp' = [tmp EXCEPT ![p] = NoFile]
            /\ Goto(p, "chmod")
            /\ UNCHANGED <<ret, fault>>
       ELSE /\ Fails(p, "rename")
            /\ UNCHANGED <<file, tmp, saved, synced>>
  /\ UNCHANGED <<stateCache, isDirty, cacheLock, op, arg, pre, cacheNil, mutex>>

\* saveToFile: os.Chmod to 0640; a failure is logged and nothing else
ChmodErrorReturned(p) ==
  /\ pc[p] = "chmod"
  /\ \E ok \in BOOLEAN :
       IF ok
       THEN Goto(p, "saved") /\ UNCHANGED <<fault, ret>>
       ELSE Fails(p, "chmod")
  /\ UNCHANGED <<stateCache, isDirty, cacheLock, file, synced, op, arg, tmp, pre, saved, cacheNil, mutex>>
Chmod(p) ==
  /\ pc[p] = "chmod"
  /\ \E ok \in BOOLEAN :
       fault' = [fault EXCEPT ![p] = IF ok THEN fault[p] ELSE "chmod"]
  /\ Goto(p, "saved")
  /\ UNCHANGED <<stateCache, isDirty, cacheLock, file, synced, op, arg, tmp, ret, pre, saved, cacheNil, mutex>>

\* Save, Delete and Reset after saveToFile returned nil
SavedKeepsTable(p) ==
  /\ pc[p] = "saved"
  /\ isDirty' = FALSE
  /\ Returns(p, Ok(None))
  /\ UNCHANGED <<stateCache, cacheLock, file, fault, synced, op, arg, tmp, pre, saved, cacheNil, mutex>>
Saved(p) ==
  /\ pc[p] = "saved"
  /\ stateCache' = IF op[p] = "Reset" THEN EmptyMap ELSE stateCache
  /\ isDirty' = FALSE
  /\ Returns(p, Ok(None))
  /\ cacheNil' = IF op[p] = "Reset" THEN FALSE ELSE cacheNil
  /\ UNCHANGED <<cacheLock, file, fault, synced, op, arg, tmp, pre, saved, mutex>>

\* The operation returns to its caller and the deferred Unlock runs. The
\* model stops tracking the call's temporary file and failed step here.
ReturnKeepsLock(p) ==
  /\ pc[p] = "ret"
  /\ cacheLock' = IF cacheLock = p /\ ~ret[p].err THEN None ELSE cacheLock
  /\ pc' = [pc EXCEPT ![p] = "idle"]
  /\ op' = [op EXCEPT ![p] = None]
  /\ arg' = [arg EXCEPT ![p] = NoArg]
  /\ ret' = [ret EXCEPT ![p] = NoRet]
  /\ pre' = [pre EXCEPT ![p] = NoPre]
  /\ tmp' = [tmp EXCEPT ![p] = NoFile]
  /\ fault' = [fault EXCEPT ![p] = None]
  /\ UNCHANGED <<stateCache, isDirty, file, synced, saved, cacheNil, mutex>>
Return(p) ==
  /\ pc[p] = "ret"
  /\ cacheLock' = IF cacheLock = p THEN None ELSE cacheLock
  /\ pc' = [pc EXCEPT ![p] = "idle"]
  /\ op' = [op EXCEPT ![p] = None]
  /\ arg' = [arg EXCEPT ![p] = NoArg]
  /\ ret' = [ret EXCEPT ![p] = NoRet]
  /\ pre' = [pre EXCEPT ![p] = NoPre]
  /\ tmp' = [tmp EXCEPT ![p] = NoFile]
  /\ fault' = [fault EXCEPT ![p] = None]
  /\ UNCHANGED <<stateCache, isDirty, file, synced, saved, cacheNil, mutex>>

\* the process stops at any point and a new store is built by NewFileCache
\* against the same file
Restart ==
  /\ stateCache' = EmptyMap
  /\ isDirty' = FALSE
  /\ cacheLock' = None
  /\ fault' = [p \in Procs |-> None]
  /\ synced' = FALSE
  /\ pc' = [p \in Procs |-> "idle"]
  /\ op' = [p \in Procs |-> None]
  /\ arg' = [p \in Procs |-> NoArg]
  /\ tmp' = [p \in Procs |-> NoFile]
  /\ ret' = [p \in Procs |-> NoRet]
  /\ pre' = [p \in Procs |-> NoPre]
  /\ cacheNil' = FALSE
  /\ mutex' = "first"
  /\ UNCHANGED <<file, saved>>

Next ==
  \/ \E p \in Procs : CallSave(p)
  \/ \E p \in Procs : Call(p)
  \/ \E p \in Procs : SaveCheck(p)
  \/ \E p \in Procs : Lock(p)
  \/ \E p \in Procs : IsChanged(p)
  \/ \E p \in Procs : Put(p)
  \/ \E p \in Procs : Get(p)
  \/ \E p \in Procs : Size(p)
  \/ \E p \in Procs : Delete(p)
  \/ \E p \in Procs : Reset(p)
  \/ \E p \in Procs : Read(p)
  \/ \E p \in Procs : Dump(p)
  \/ \E p \in Procs : WriteTo(p)
  \/ \E p \in Procs : TempFile(p)
  \/ \E p \in Procs : Encode(p)
  \/ \E p \in Procs : Close(p)
  \/ \E p \in Procs : Rename(p)
  \/ \E p \in Procs : Chmod(p)
  \/ \E p \in Procs : Saved(p)
  \/ \E p \in Procs : Return(p)
  \/ Restart

Spec == Init /\ [][Next]_vars

\* One step of the operation a goroutine is inside, other than taking the
\* mutex: the Go scheduler runs every runnable goroutine, and every I/O call
\* returns.
Step(p) ==
  \/ SaveCheck(p) \/ IsChanged(p) \/ Put(p) \/ Get(p) \/ Size(p)
  \/ Delete(p) \/ Reset(p) \/ Read(p) \/ Dump(p) \/ WriteTo(p)
  \/ TempFile(p) \/ Encode(p) \/ Close(p) \/ Rename(p) \/ Chmod(p)
  \/ Saved(p) \/ Return(p)

\* sync.Mutex hands the lock to a goroutine that has waited (starvation
\* mode), so a goroutine that finds the mutex free again and again gets it
Fairness == \A p \in Procs : WF_pc(Step(p)) /\ SF_pc(Lock(p))

\* The steps an operation takes do not depend on the identifier or the
\* entity it is called with, so the calls of the fair specification all
\* carry the first identifier and one serializable entity.
FairArgs(o) ==
  CASE o \in {"IsChanged", "Put"} -> {[id |-> IdOrder[1], body |-> 1]}
    [] o \in {"Get", "Delete"} -> {IdOrder[1]}
    [] OTHER -> {NoArg}

FairNext ==
  \/ \E p \in Procs : CallSave(p)
  \/ \E p \in Procs : Call(p)
  \/ \E p \in Procs : Lock(p) /\ arg'[p] \in FairArgs(op'[p])
  \/ \E p \in Procs : Step(p)
  \/ Restart

FairSpec == Init /\ [][FairNext]_vars /\ Fairness

\* ------------------------------------------------------------- claims
Writers == {"Save", "Delete", "Reset"}
AtRet(p, o) == pc[p] = "ret" /\ op[p] = o
PreWriteSteps == {"tempfile", "encode", "close", "rename"}
\* what a Read of the file would load
Stored(f) == readFile(OpenCreate(f))
Holds(f, cache) == f.exists /\ ~readFile(f).err /\ readFile(f).cache = cache

\* C1: while a Save, Delete or Reset runs, and when it has returned or was
\* cut short at any step, the state-file is exactly the file from before
\* the call or the complete encoding of the table the call writes: it is
\* the old file up to the rename and the new one after it, and no file
\* other than the one found at construction ever fails to parse.
C1_TargetOldOrNew ==
  /\ \A p \in Procs :
       (pre[p].held /\ op[p] \in Writers) =>
         /\ file = pre[p].file \/ file = FileOf(EncodeMap(WriteArg(p)))
         /\ pc[p] \in PreWriteSteps \cup {"body"} => file = pre[p].file
         /\ pc[p] \in {"chmod", "saved"} => file = FileOf(EncodeMap(WriteArg(p)))
  /\ (file.exists /\ readFile(file).err) => file = Corrupt

\* a Save has renamed a new table over a different, existing file
C1_Witness ==
  \E p \in Procs :
    /\ pc[p] = "chmod" /\ op[p] = "Save"
    /\ pre[p].file.exists /\ pre[p].file # file
    /\ Holds(file, stateCache) /\ stateCache # EmptyMap

\* C2: when temp-file creation, encoding, close or rename fails, the Save,
\* Delete or Reset returns an error, the state-file is the file from before
\* the call, and a Read then loads what it would have loaded before.
C2_FailedWriteLeavesFile ==
  \A p \in Procs :
    (pc[p] = "ret" /\ op[p] \in Writers /\ fault[p] \in PreWriteSteps) =>
      /\ ret[p].err
      /\ file = pre[p].file
      /\ Stored(file) = Stored(pre[p].file)

\* a Save of a changed table failed at the rename
C2_Witness ==
  \E p \in Procs :
    /\ AtRet(p, "Save") /\ fault[p] = "rename"
    /\ ~Stored(file).err /\ Stored(file).cache # stateCache

\* C3: when nobody holds the lock and a Read or a durable write of this
\* store has succeeded, a clear dirty flag implies that the file holds
\* the in-memory table.
C3_CleanMeansStored ==
  (cacheLock = None /\ synced /\ ~isDirty) => Holds(file, stateCache)

\* the store is clean with a non-empty table on disk, after a flag that was set
C3_Witness ==
  /\ cacheLock = None /\ synced /\ ~isDirty
  /\ stateCache # EmptyMap
  /\ \A p \in Procs : pc[p] = "idle"

\* C4: every goroutine that stands at a statement reading or writing the
\* table or the dirty flag holds the lock.
AccessSteps == {"check", "body", "tempfile", "encode", "close", "rename", "chmod", "saved"}
C4_EveryAccessUnderLock ==
  \A p \in Procs : pc[p] \in AccessSteps => cacheLock = p

\* C5: a Save that finds the dirty flag clear returns nil without taking the
\* lock and changes neither the file, the temporary files, the table nor the
\* flag; and a Save that wrote returns with the flag clear, so that the
\* next Save with no mutation in between is such a no-op.
C5_CleanSaveIsNoOp ==
  /\ [](\A p \in Procs :
          (AtRet(p, "Save") /\ pre[p].held /\ ~ret[p].err) => ~isDirty)
  /\ [][\A p \in Procs :
          (pc[p] = "check" /\ ~isDirty /\ pc'[p] \notin {"check", "idle"}) =>
            /\ pc'[p] = "ret" /\ ~ret'[p].err /\ fault'[p] = None
            /\ ~pre'[p].held
            /\ <<file, tmp, stateCache, isDirty, cacheLock, saved>>'
                 = <<file, tmp, stateCache, isDirty, cacheLock, saved>>]_vars

\* a Save returned without writing, on a store whose non-empty table is stored
C5_Witness ==
  \E p \in Procs :
    /\ AtRet(p, "Save") /\ ~pre[p].held /\ ~ret[p].err
    /\ synced /\ stateCache # EmptyMap /\ Holds(file, stateCache)

\* C6: a Read that returns nil after a durable write has committed, in the
\* same store or in one built later against the same file, leaves the
\* in-memory table equal to the table that write was given (for Save: the
\* table in memory at the save), so Get returns the same check-sum for every
\* identifier.
C6_RoundTrip ==
  \A p \in Procs :
    (AtRet(p, "Read") /\ ~ret[p].err /\ saved.valid) =>
      /\ stateCache = saved.cache
      /\ \A id \in Ids : MapGet(getCache, id) = MapGet(saved.cache, id)

\* a new, empty store has read back a table with every identifier in it,
\* which only a Save can have written
C6_Witness ==
  \E p \in Procs :
    /\ AtRet(p, "Read") /\ ~ret[p].err /\ saved.valid
    /\ pre[p].cache = EmptyMap /\ ~pre[p].dirty
    /\ DOMAIN stateCache = Ids
    /\ \E id \in Ids : Len(stateCache[id]) = 0
    /\ \E id \in Ids : Len(stateCache[id]) > 0

\* C7 as stated: IsChanged returns true exactly when the table has no entry
\* for the identifier or the computed check-sum differs from the stored one.
C7_TrueIffAbsentOrDiffers ==
  \A p \in Procs :
    AtRet(p, "IsChanged") =>
      ret[p].val = (\/ arg[p].id \notin DOMAIN stateCache
                    \/ makeCheckSum(arg[p]) # stateCache[arg[p].id])

\* the fingerprint of an entity: the digest of its encoding, empty when it
\* does not encode
Fingerprint(e) ==
  IF Serialize(e).err THEN EmptyStr ELSE SumBytes(Serialize(e).bytes)

\* C7 amended: IsChanged returns true exactly when the table has no entry
\* for the identifier, or the entry holds the empty check-sum (left by a
\* Put whose entity did not encode), or the entity's fingerprint differs
\* from the stored one. On an empty table it returns true; Put leaves the
\* entity's fingerprint as the entry of its identifier; on the entry Put
\* left for an entity that encodes, IsChanged of that entity returns false
\* and IsChanged of another version with the same identifier returns true.
C7_TrueIffAbsentEmptyOrDiffers ==
  \A p \in Procs :
    /\ AtRet(p, "IsChanged") =>
         /\ ret[p].val = (\/ arg[p].id \notin DOMAIN stateCache
                          \/ stateCache[arg[p].id] = EmptyStr
                          \/ Fingerprint(arg[p]) # stateCache[arg[p].id])
         /\ stateCache = EmptyMap => ret[p].val = TRUE
         /\ \A e \in Entities :
              (/\ e.id = arg[p].id /\ ~Serialize(e).err
               /\ arg[p].id \in DOMAIN stateCache
               /\ stateCache[arg[p].id] = Fingerprint(e)) =>
                 ret[p].val = (e.body # arg[p].body)
    /\ AtRet(p, "Put") =>
         /\ arg[p].id \in DOMAIN stateCache
         /\ stateCache[arg[p].id] = Fingerprint(arg[p])
         /\ \A id \in DOMAIN stateCache \ {arg[p].id} :
              id \in DOMAIN pre[p].cache /\ stateCache[id] = pre[p].cache[id]

\* IsChanged answered for an identifier whose entry holds another version
C7_Witness ==
  \E p \in Procs :
    /\ AtRet(p, "IsChanged") /\ ret[p].val = TRUE
    /\ arg[p].id \in DOMAIN stateCache
    /\ ~Serialize(arg[p]).err
    /\ Len(stateCache[arg[p].id]) > 0

\* C8: IsChanged returns true whenever the entity does not encode or the
\* entry of its identifier was stored by a Put whose entity did not encode
\* (such a Put stores the empty check-sum).
C8_FailOpen ==
  \A p \in Procs :
    /\ (AtRet(p, "IsChanged") /\ Serialize(arg[p]).err) => ret[p].val = TRUE
    /\ (AtRet(p, "IsChanged") /\ arg[p].id \in DOMAIN stateCache
          /\ stateCache[arg[p].id] = EmptyStr) => ret[p].val = TRUE
    /\ (AtRet(p, "Put") /\ Serialize(arg[p]).err) =>
         MapGet(getCache, arg[p].id) = EmptyStr

\* IsChanged of an entity that does not encode, on the entry a failed Put left
C8_Witness ==
  \E p \in Procs :
    /\ AtRet(p, "IsChanged") /\ Serialize(arg[p]).err
    /\ arg[p].id \in DOMAIN stateCache
    /\ stateCache[arg[p].id] = EmptyStr

\* C9: a Delete that returns nil leaves the table it found without the
\* entry of the identifier and nothing else changed, one entry smaller if
\* the identifier was present; the file holds that table Puts
\* included, and the dirty flag is clear.
C9_DeleteOk ==
  \A p \in Procs :
    (AtRet(p, "Delete") /\ ~ret[p].err) =>
      /\ DOMAIN stateCache = (DOMAIN pre[p].cache) \ {arg[p]}
      /\ \A id \in DOMAIN stateCache : stateCache[id] = pre[p].cache[id]
      /\ MapLen(getCache) = MapLen(pre[p].cache)
                              - (IF arg[p] \in DOMAIN pre[p].cache THEN 1 ELSE 0)
      /\ Holds(file, stateCache)
      /\ ~isDirty

\* a Delete of a present key returned nil on a table with an unsaved Put
C9_Witness ==
  \E p \in Procs :
    /\ AtRet(p, "Delete") /\ ~ret[p].err
    /\ arg[p] \in DOMAIN pre[p].cache
    /\ stateCache # EmptyMap
    /\ pre[p].dirty
    /\ ~Stored(pre[p].file).err
    /\ \E id \in DOMAIN stateCache : id \notin DOMAIN Stored(pre[p].file).cache

\* C10: a Delete whose write fails returns an error with the entry removed
\* from the table all the same, the file as it was and the dirty flag set.
C10_DeleteFailed ==
  \A p \in Procs :
    (AtRet(p, "Delete") /\ ret[p].err) =>
      /\ fault[p] \in PreWriteSteps
      /\ stateCache = MapDelete(pre[p].cache, arg[p])
      /\ arg[p] \notin DOMAIN stateCache
      /\ file = pre[p].file
      /\ isDirty

\* a Delete of a present key failed on a store that was clean
C10_Witness ==
  \E p \in Procs :
    /\ AtRet(p, "Delete") /\ ret[p].err
    /\ arg[p] \in DOMAIN pre[p].cache
    /\ ~pre[p].dirty

\* C11: a Reset whose write fails returns an error with the table
\* already emptied and the file as it was; a Reset that returns nil leaves
\* the table empty, the file holding the empty table and the flag clear.
C11_FailedResetEmpties ==
  \A p \in Procs :
    /\ (AtRet(p, "Reset") /\ ret[p].err) =>
         /\ MapLen(getCache) = 0
         /\ file = pre[p].file
    /\ (AtRet(p, "Reset") /\ ~ret[p].err) =>
         /\ stateCache = EmptyMap
         /\ Holds(file, EmptyMap)
         /\ ~isDirty

\* C13: when only the chmod after the rename fails, the Save, Delete or
\* Reset returns nil, the file holds the table the call wrote and the
\* dirty flag is clear.
C13_ChmodFailureIgnored ==
  \A p \in Procs :
    (pc[p] = "ret" /\ op[p] \in Writers /\ fault[p] = "chmod") =>
      /\ ~ret[p].err
      /\ file = FileOf(EncodeMap(WriteArg(p)))
      /\ Holds(file, stateCache)
      /\ ~isDirty

\* a Save changed the file and returned after its chmod failed
C13_Witness ==
  \E p \in Procs :
    /\ AtRet(p, "Save") /\ fault[p] = "chmod"
    /\ file # pre[p].file /\ stateCache # EmptyMap

\* C15: IsChanged, Get and Size return with the table, the dirty flag and
\* the file as they found them. Put returns with the entity's fingerprint
\* as the entry of its identifier, every other entry as it was, the dirty
\* flag set, the file as it was and no temporary file.
ReadOnlyOps == {"IsChanged", "Get", "Size"}
C15_Frames ==
  \A p \in Procs :
    /\ (pc[p] = "ret" /\ op[p] \in ReadOnlyOps) =>
         /\ ~ret[p].err
         /\ stateCache = pre[p].cache
         /\ isDirty = pre[p].dirty
         /\ file = pre[p].file
         /\ ~tmp[p].exists
    /\ AtRet(p, "Put") =>
         /\ DOMAIN stateCache = (DOMAIN pre[p].cache) \cup {arg[p].id}
         /\ \A id \in Ids \ {arg[p].id} :
              MapGet(getCache, id) = MapGet(pre[p].cache, id)
         /\ stateCache[arg[p].id] = Fingerprint(arg[p])
         /\ isDirty
         /\ file = pre[p].file
         /\ ~tmp[p].exists

\* a Put overwrote an entry next to another entry, on a store with a file
C15_Witness ==
  \E p \in Procs :
    /\ AtRet(p, "Put")
    /\ arg[p].id \in DOMAIN pre[p].cache
    /\ pre[p].cache[arg[p].id] # stateCache[arg[p].id]
    /\ MapLen(getCache) > 1
    /\ file.exists /\ ~pre[p].dirty

\* C19: a Save, Delete or Reset that returns an error leaves no temporary
\* file of its own behind.
C19_NoTempFileAfterError ==
  \A p \in Procs :
    (pc[p] = "ret" /\ op[p] \in Writers /\ ret[p].err) => ~tmp[p].exists

\* C12 as stated: Read of a missing or empty file returns nil with the
\* table empty; Read of a file that cannot be parsed returns an error; a
\* Read that returns nil leaves the table equal to the file's table,
\* whatever it held before.
Unparsable(f) == f.exists /\ readFile(f).err
C12_ReadReplaces ==
  \A p \in Procs :
    AtRet(p, "Read") =>
      /\ (~pre[p].file.exists \/ Len(pre[p].file.data) = 0) =>
           ~ret[p].err /\ stateCache = EmptyMap
      /\ Unparsable(pre[p].file) => ret[p].err
      /\ ~ret[p].err => Holds(file, stateCache)

\* C12 amended: provided the file can be opened (a missing file is created
\* by the open) and its bytes can be read, Read of a missing or empty file
\* returns nil with the table empty; Read of a file that cannot be parsed
\* returns an error; a Read that returns nil leaves the table equal to the
\* file's table, whatever it held before; a Read that returns an error
\* leaves the table as it was.
IoSteps == {"open", "read"}
C12_ReadReplacesIfOpened ==
  \A p \in Procs :
    AtRet(p, "Read") =>
      /\ ret[p].err <=> fault[p] \in IoSteps \cup {"decode"}
      /\ fault[p] \notin IoSteps =>
           /\ (~pre[p].file.exists \/ Len(pre[p].file.data) = 0) =>
                ~ret[p].err /\ stateCache = EmptyMap
           /\ Unparsable(pre[p].file) <=> ret[p].err
           /\ file.exists
      /\ ~ret[p].err =>
           /\ Holds(file, stateCache)
           /\ stateCache = Stored(pre[p].file).cache
      /\ ret[p].err => stateCache = pre[p].cache
      /\ isDirty = pre[p].dirty

\* a Read of a missing file emptied a table that held unsaved entries
C12_Witness ==
  \E p \in Procs :
    /\ AtRet(p, "Read") /\ ~ret[p].err
    /\ ~pre[p].file.exists /\ file.exists
    /\ pre[p].dirty /\ pre[p].cache # EmptyMap /\ stateCache = EmptyMap

\* C16: the dirty flag is set when a Put has returned and while a Delete or
\* Reset is at any step of its write; within the life of a store it goes
\* from set to clear only in the step that ends a write of Save, Delete or
\* Reset which returns nil, never in Read, Get, Size, IsChanged, Dump or
\* WriteTo and never in a write that failed; and the table held by the
\* state-file changes only in the rename step of Save, Delete or Reset.
WriteSteps == {"tempfile", "encode", "close", "rename", "chmod", "saved"}
FileTable(f) == <<Stored(f).err, Stored(f).cache>>
C16_DirtyAndFileSteps ==
  /\ [](\A p \in Procs :
          /\ AtRet(p, "Put") => isDirty
          /\ (op[p] \in {"Delete", "Reset"} /\ pc[p] \in WriteSteps) => isDirty)
  /\ [][(isDirty /\ ~isDirty') =>
          \/ Restart
          \/ \E p \in Procs :
               /\ pc[p] = "saved" /\ op[p] \in Writers /\ cacheLock = p
               /\ pc'[p] = "ret" /\ ~ret'[p].err
               /\ Holds(file, WriteArg(p))]_vars
  /\ [][file' # file =>
          \/ \E p \in Procs :
               /\ pc[p] = "rename" /\ op[p] \in Writers /\ cacheLock = p
               /\ pc'[p] = "chmod"
               /\ file' = FileOf(EncodeMap(WriteArg(p)))
          \/ FileTable(file') = FileTable(file)]_vars

\* a Delete that found the flag set changed the file's table and returned
\* with the flag clear
C16_Witness ==
  \E p \in Procs :
    /\ AtRet(p, "Delete") /\ ~ret[p].err
    /\ pre[p].dirty /\ ~isDirty
    /\ FileTable(file) # FileTable(pre[p].file)

\* C14: a goroutine that is not inside an operation, or waits for the
\* mutex, does not hold it, whatever its last operation returned; a
\* goroutine inside an operation can always take a step or waits for a
\* mutex that its holder can release; and every operation that was started
\* returns.
Outside == {"idle", "check", "lock"}
C14_LockReleased ==
  /\ [](\A p \in Procs : pc[p] \in Outside => cacheLock # p)
  /\ [](cacheLock \in Procs => pc[cacheLock] \notin Outside)
  /\ [][\A p \in Procs :
          (pc[p] = "ret" /\ pc'[p] = "idle" /\ cacheLock = p) => cacheLock' = None]_vars
  /\ \A p \in Procs : (pc[p] # "idle") ~> (pc[p] = "idle")

\* while one goroutine waits for the mutex, the other returns an error from
\* a Delete whose rename failed, still holding the mutex
C14_Witness ==
  \E p \in Procs : \E q \in Procs \ {p} :
    /\ pc[p] = "lock"
    /\ cacheLock = q /\ AtRet(q, "Delete") /\ ret[q].err /\ fault[q] = "rename"

\* C17: a Delete or Reset that failed returns with the dirty flag set; the
\* flag stays set until a Save, Delete or Reset returns nil, which leaves
\* the state-file holding the in-memory table; and while the flag is set no
\* Save that tests it returns without writing.
C17_FailedWriteRepaired ==
  /\ [](\A p \in Procs :
          /\ (pc[p] = "ret" /\ op[p] \in {"Delete", "Reset"} /\ ret[p].err) =>
               isDirty /\ file = pre[p].file
          /\ (pc[p] = "ret" /\ op[p] \in Writers /\ pre[p].held /\ ~ret[p].err) =>
               Holds(file, stateCache) /\ ~isDirty)
  /\ [][\A p \in Procs :
          (isDirty /\ pc[p] = "check" /\ pc'[p] \notin {"check", "idle"}) =>
            pc'[p] = "lock" /\ op'[p] = "Save"]_vars
  /\ [][(isDirty /\ ~isDirty') =>
          \/ Restart
          \/ \E p \in Procs :
               /\ pc'[p] = "ret" /\ op'[p] \in Writers /\ ~ret'[p].err
               /\ Holds(file', stateCache')]_vars

\* a Delete on a clean store whose file held the table failed after taking
\* the key out, and the other goroutine's Save was not skipped: it waits
\* for the mutex
C17_Witness ==
  \E p \in Procs : \E q \in Procs \ {p} :
    /\ AtRet(q, "Delete") /\ ret[q].err
    /\ ~pre[q].dirty /\ Holds(pre[q].file, pre[q].cache)
    /\ stateCache # pre[q].cache /\ ~Holds(file, stateCache)
    /\ pc[p] = "lock" /\ op[p] = "Save"

\* C18: a Put that has returned leaves the dirty flag set; a Save returns
\* without writing only when the state-file already holds the table (or,
\* on a store that has neither read nor written its file, the table is
\* still empty); a Save that wrote and returns nil leaves the file holding
\* the table as it was when the Save took the lock.
C18_SaveNeverSkipsUnsaved ==
  /\ [](\A p \in Procs :
          /\ AtRet(p, "Put") => isDirty
          /\ (AtRet(p, "Save") /\ pre[p].held /\ ~ret[p].err) =>
               /\ Holds(file, stateCache)
               /\ stateCache = pre[p].cache)
  /\ [][\A p \in Procs :
          (pc[p] = "check" /\ pc'[p] = "ret") =>
            /\ ~ret'[p].err
            /\ IF synced THEN Holds(file, stateCache) ELSE stateCache = EmptyMap]_vars

\* a Save found the flag set by the other goroutine's Put, waited for the
\* lock and wrote the table with that entry, while the other goroutine
\* calls Save in its turn
C18_Witness ==
  \E p \in Procs : \E q \in Procs \ {p} :
    /\ AtRet(p, "Save") /\ ~ret[p].err
    /\ pre[p].held /\ pre[p].dirty
    /\ pc[q] = "check"
    /\ stateCache # EmptyMap /\ Holds(file, stateCache)
    /\ ~Holds(pre[p].file, stateCache)

\* C20: fc.stateCache is never nil and fc.cacheLock is always the mutex
\* NewFileCache made; at most one goroutine is between its Lock and its
\* Unlock, and it is the holder of that mutex.
Locked(p) == pre[p].held
====
